---- MODULE Spec2Model ----
(***************************************************************************)
(* Model of the SESACO verification backend (src/main.py) and of the       *)
(* session, the verification form and the report page of its Streamlit     *)
(* front end (src/appsesaco1.py).                                          *)
(*                                                                         *)
(* Percentages: cumplimiento_promedio is a float rounded to 2 decimals; it *)
(* is kept here as an integer number of hundredths of a percent (6000 is   *)
(* 60.00).  The per-section percentages of the front end are unrounded     *)
(* floats; they are kept as exact fractions [num, den].                    *)
(*                                                                         *)
(* Answer tokens: the source compares against the strings "✅ Cumple" and  *)
(* "❌ No cumple"; the form also offers "➖ No aplica".  The model writes  *)
(* them without the leading pictograph.                                    *)
(***************************************************************************)
EXTENDS Integers, Sequences, FiniteSets, TLC

\* ---------------------------------------------------------------- bounds
MaxFormularios == 2
MaxEntradas == 3
MaxRespondidas == 2

\* ------------------------------------------------------------ input sets
RUCS == {"r1", "r2"}
RazonesSociales == {"n1"}
Cedulas == {"1722212253"}
Fechas == {1, 2}
Secciones == {"gestion_administrativa", "gestion_tecnica"}

CUMPLE == "Cumple"
NO_CUMPLE == "No cumple"
NO_APLICA == "No aplica"
None == "None"
Malformada == "Cumple parcial"
Respuestas == {CUMPLE, NO_CUMPLE, NO_APLICA, None, Malformada}

\* PreguntaVerificacion: the fields the aggregation and the listings read.
\* Each specification draws its question entries from one of these sets.
PreguntasAPI ==
    [id : {1}, seccion : {"gestion_administrativa"},
     respuesta : {CUMPLE, NO_CUMPLE}]
PreguntasAgg ==
    [id : {1}, seccion : {"gestion_administrativa"}, respuesta : Respuestas]
PreguntasRep ==
    {[id |-> 1, seccion |-> "gestion_administrativa", respuesta |-> NO_CUMPLE],
     [id |-> 1, seccion |-> "gestion_administrativa", respuesta |-> CUMPLE],
     [id |-> 1, seccion |-> "gestion_administrativa", respuesta |-> NO_APLICA],
     [id |-> 1, seccion |-> "gestion_tecnica", respuesta |-> NO_CUMPLE]}

\* entries of two catalog sections with every answer token, and one entry
\* whose seccion is not a key of the form's catalog
PreguntasEsc ==
    [id : {1}, seccion : Secciones, respuesta : Respuestas]
    \cup {[id |-> 1, seccion |-> "seccion_desconocida", respuesta |-> CUMPLE]}
EscenarioA ==
    <<[id |-> 1, seccion |-> "gestion_administrativa", respuesta |-> CUMPLE],
      [id |-> 2, seccion |-> "gestion_administrativa", respuesta |-> CUMPLE],
      [id |-> 3, seccion |-> "gestion_administrativa", respuesta |-> NO_CUMPLE]>>
EscenarioB ==
    <<[id |-> 1, seccion |-> "gestion_tecnica", respuesta |-> CUMPLE],
      [id |-> 2, seccion |-> "gestion_tecnica", respuesta |-> NO_APLICA]>>
\* FormularioVerificacion.preguntas: the lists submitted in SpecEscenario
ListasEscenario ==
    {<<>>, EscenarioA, EscenarioB} \cup {<<p>> : p \in PreguntasEsc}

RECURSIVE SeqsUpTo(_, _)
SeqsUpTo(S, n) ==
    IF n = 0 THEN {<<>>}
    ELSE LET prev == SeqsUpTo(S, n - 1)
         IN prev \cup {Append(s, x) : s \in {t \in prev : Len(t) = n - 1}, x \in S}

VARIABLES usuarios, empresas, formularios, request, response,
          empresa_actual, pantalla,
          logged_in, token, user_info, current_page, previous_page

\* st.session_state, short of empresa_actual
sesion == <<logged_in, token, user_info, current_page, previous_page>>

vars == <<usuarios, empresas, formularios, request, response,
          empresa_actual, pantalla, sesion>>

\* ---------------------------------------------------------------- store
\* DATABASE["formularios"] is a dict: iteration follows insertion order and
\* assigning to an existing key replaces the value in place.
formulario_id(f) == <<f.empresa_ruc, f.fecha>>

IndiceDe(fs, k) ==
    IF \E i \in 1..Len(fs) : formulario_id(fs[i]) = k
    THEN CHOOSE i \in 1..Len(fs) : formulario_id(fs[i]) = k
    ELSE 0

\* variant: a stored key is deleted and the value is added at the end
DictSetAlFinal(fs, f) ==
    Append(SelectSeq(fs, LAMBDA g : formulario_id(g) # formulario_id(f)), f)

DictSet(fs, f) ==
    LET i == IndiceDe(fs, formulario_id(f))
    IN IF i = 0 THEN Append(fs, f) ELSE [fs EXCEPT ![i] = f]

\* the stored submissions of ruc, short of the one stored last
FormulariosDeAnteriores(fs, ruc) ==
    SelectSeq(SubSeq(fs, 1, Len(fs) - 1), LAMBDA f : f.empresa_ruc = ruc)

\* variant: the submissions of every company
FormulariosDeTodos(fs, ruc) == fs

FormulariosDe(fs, ruc) == SelectSeq(fs, LAMBDA f : f.empresa_ruc = ruc)

\* ---------------------------------------------------------- aggregation
SeccionVacia == [total |-> 0, cumple |-> 0, no_cumple |-> 0, no_aplica |-> 0]

\* variant: the test for "No cumple" is an if of its own, so a compliant
\* entry also falls into its else
ContarSeccionSinElif(datos, respuesta) ==
    LET d == [datos EXCEPT !.total = @ + 1]
        c == IF respuesta = CUMPLE THEN [d EXCEPT !.cumple = @ + 1] ELSE d
    IN IF respuesta = NO_CUMPLE THEN [c EXCEPT !.no_cumple = @ + 1]
       ELSE [c EXCEPT !.no_aplica = @ + 1]

\* variant: total is raised in the two compliance branches only
ContarSeccionTotalAplicable(datos, respuesta) ==
    IF respuesta = CUMPLE
    THEN [datos EXCEPT !.total = @ + 1, !.cumple = @ + 1]
    ELSE IF respuesta = NO_CUMPLE
    THEN [datos EXCEPT !.total = @ + 1, !.no_cumple = @ + 1]
    ELSE [datos EXCEPT !.no_aplica = @ + 1]

\* one pass of the inner loop body of generar_reporte_empresa
ContarSeccion(datos, respuesta) ==
    LET d == [datos EXCEPT !.total = @ + 1]
    IN IF respuesta = CUMPLE THEN [d EXCEPT !.cumple = @ + 1]
       ELSE IF respuesta = NO_CUMPLE THEN [d EXCEPT !.no_cumple = @ + 1]
       ELSE [d EXCEPT !.no_aplica = @ + 1]

\* variant: a not-applicable entry is left out of preguntas_totales
ContarPreguntaSinNoAplica(acc, pregunta) ==
    LET secs == IF pregunta.seccion \in DOMAIN acc.secciones
                THEN acc.secciones
                ELSE acc.secciones @@ (pregunta.seccion :> SeccionVacia)
    IN [cumplimientos_totales |->
            IF pregunta.respuesta = CUMPLE
            THEN acc.cumplimientos_totales + 1 ELSE acc.cumplimientos_totales,
        preguntas_totales |->
            IF pregunta.respuesta = NO_APLICA
            THEN acc.preguntas_totales ELSE acc.preguntas_totales + 1,
        secciones |-> [secs EXCEPT ![pregunta.seccion] =
                            ContarSeccion(@, pregunta.respuesta)]]

\* variant: preguntas_totales grows only in the branch of the entries that
\* are not compliant
ContarPreguntaTotalElse(acc, pregunta) ==
    LET secs == IF pregunta.seccion \in DOMAIN acc.secciones
                THEN acc.secciones
                ELSE acc.secciones @@ (pregunta.seccion :> SeccionVacia)
    IN [cumplimientos_totales |->
            IF pregunta.respuesta = CUMPLE
            THEN acc.cumplimientos_totales + 1 ELSE acc.cumplimientos_totales,
        preguntas_totales |->
            IF pregunta.respuesta = CUMPLE
            THEN acc.preguntas_totales ELSE acc.preguntas_totales + 1,
        secciones |-> [secs EXCEPT ![pregunta.seccion] =
                            ContarSeccion(@, pregunta.respuesta)]]

\* variant: an entry whose seccion is not a section of the catalog is skipped
ContarPreguntaCatalogo(acc, pregunta) ==
    IF pregunta.seccion \notin Secciones THEN acc
    ELSE
    LET secs == IF pregunta.seccion \in DOMAIN acc.secciones
                THEN acc.secciones
                ELSE acc.secciones @@ (pregunta.seccion :> SeccionVacia)
    IN [cumplimientos_totales |->
            IF pregunta.respuesta = CUMPLE
            THEN acc.cumplimientos_totales + 1 ELSE acc.cumplimientos_totales,
        preguntas_totales |-> acc.preguntas_totales + 1,
        secciones |-> [secs EXCEPT ![pregunta.seccion] =
                            ContarSeccion(@, pregunta.respuesta)]]

ContarPregunta(acc, pregunta) ==
    LET secs == IF pregunta.seccion \in DOMAIN acc.secciones
                THEN acc.secciones
                ELSE acc.secciones @@ (pregunta.seccion :> SeccionVacia)
    IN [cumplimientos_totales |->
            IF pregunta.respuesta = CUMPLE
            THEN acc.cumplimientos_totales + 1 ELSE acc.cumplimientos_totales,
        preguntas_totales |-> acc.preguntas_totales + 1,
        secciones |-> [secs EXCEPT ![pregunta.seccion] =
                            ContarSeccion(@, pregunta.respuesta)]]

RECURSIVE ContarPreguntas(_, _, _)
ContarPreguntas(acc, preguntas, i) ==
    IF i > Len(preguntas) THEN acc
    ELSE ContarPreguntas(ContarPregunta(acc, preguntas[i]), preguntas, i + 1)

RECURSIVE ContarFormularios(_, _, _)
ContarFormularios(acc, fs, i) ==
    IF i > Len(fs) THEN acc
    ELSE ContarFormularios(ContarPreguntas(acc, fs[i].preguntas, 1), fs, i + 1)

AccInicial == [cumplimientos_totales |-> 0, preguntas_totales |-> 0,
               secciones |-> <<>>]

\* round((c / t) * 100, 2) in hundredths; an exact half goes to the even
\* neighbour, as Python's round does
Round2(c, t) ==
    LET n == c * 10000
        q == n \div t
        r == n % t
    IN IF 2 * r < t THEN q
       ELSE IF 2 * r > t THEN q + 1
       ELSE IF q % 2 = 0 THEN q ELSE q + 1

CumplimientoPromedio(acc) ==
    IF acc.preguntas_totales > 0
    THEN Round2(acc.cumplimientos_totales, acc.preguntas_totales)
    ELSE 0

MaxFechaDe(fs) ==
    CHOOSE m \in {fs[i].fecha : i \in 1..Len(fs)} :
        \A i \in 1..Len(fs) : fs[i].fecha <= m

Estadisticas(fs) ==
    LET acc == ContarFormularios(AccInicial, fs, 1)
    IN [total_verificaciones |-> Len(fs),
        ultima_verificacion |-> MaxFechaDe(fs),
        cumplimiento_promedio |-> CumplimientoPromedio(acc),
        secciones |-> acc.secciones]

UltimoFormulario(fs) == fs[Len(fs)]

\* variant: the company is looked up only when no submission is stored
generar_reporte_sin_empresa(db_empresas, db_formularios, empresa_ruc) ==
    LET fs == FormulariosDe(db_formularios, empresa_ruc)
    IN IF fs = <<>>
       THEN IF empresa_ruc \notin DOMAIN db_empresas
            THEN [status |-> 404, detail |-> "Empresa no encontrada"]
            ELSE [status |-> 404, detail |-> "No hay formularios para esta empresa"]
       ELSE [status |-> 200,
             empresa |-> IF empresa_ruc \in DOMAIN db_empresas
                         THEN db_empresas[empresa_ruc]
                         ELSE [ruc |-> empresa_ruc, razon_social |-> ""],
             estadisticas |-> Estadisticas(fs),
             ultimo_formulario |-> UltimoFormulario(fs)]

\* variant: no submissions give a zero-filled report
generar_reporte_vacio(db_empresas, db_formularios, empresa_ruc) ==
    IF empresa_ruc \notin DOMAIN db_empresas
    THEN [status |-> 404, detail |-> "Empresa no encontrada"]
    ELSE LET fs == FormulariosDe(db_formularios, empresa_ruc)
         IN IF fs = <<>>
            THEN [status |-> 200,
                  empresa |-> db_empresas[empresa_ruc],
                  estadisticas |-> [total_verificaciones |-> 0,
                                    ultima_verificacion |-> 0,
                                    cumplimiento_promedio |-> 0,
                                    secciones |-> <<>>],
                  ultimo_formulario |->
                      [empresa_ruc |-> empresa_ruc, inspector_cedula |-> "",
                       fecha |-> 0, preguntas |-> <<>>]]
            ELSE [status |-> 200,
                  empresa |-> db_empresas[empresa_ruc],
                  estadisticas |-> Estadisticas(fs),
                  ultimo_formulario |-> UltimoFormulario(fs)]

\* the value generar_reporte_empresa returns or the HTTPException it raises
generar_reporte_empresa(db_empresas, db_formularios, empresa_ruc) ==
    IF empresa_ruc \notin DOMAIN db_empresas
    THEN [status |-> 404, detail |-> "Empresa no encontrada"]
    ELSE LET fs == FormulariosDe(db_formularios, empresa_ruc)
         IN IF fs = <<>>
            THEN [status |-> 404, detail |-> "No hay formularios para esta empresa"]
            ELSE [status |-> 200,
                  empresa |-> db_empresas[empresa_ruc],
                  estadisticas |-> Estadisticas(fs),
                  ultimo_formulario |-> UltimoFormulario(fs)]

\* ------------------------------------------------------------ front end
\* (datos["cumple"] / total_aplicable) * 100 as an exact fraction; ok is
\* FALSE where the division raises ZeroDivisionError
Dividir(n, d) ==
    IF d = 0 THEN [ok |-> FALSE, num |-> 0, den |-> 0]
    ELSE [ok |-> TRUE, num |-> n * 100, den |-> d]

Cero == [ok |-> TRUE, num |-> 0, den |-> 1]

\* generate_pdf_report: "Porcentaje de cumplimiento" of one section
PdfPorcentaje(datos) ==
    LET total_aplicable == datos.total - datos.no_aplica
    IN IF total_aplicable > 0 THEN Dividir(datos.cumple, total_aplicable)
       ELSE Cero

\* variant: the bar chart divides by the section's total
BarPorcentajeTotal(datos) ==
    IF datos.total > 0 THEN Dividir(datos.cumple, datos.total) ELSE Cero

\* reportes_page: column "Cumplimiento (%)" of the bar chart
BarPorcentaje(datos) ==
    IF (datos.total - datos.no_aplica) > 0
    THEN Dividir(datos.cumple, datos.total - datos.no_aplica)
    ELSE Cero

\* reportes_page: "Porcentaje de Cumplimiento" of the section detail
DetallePorcentaje(datos) ==
    LET total_aplicable == datos.total - datos.no_aplica
    IN IF total_aplicable > 0 THEN Dividir(datos.cumple, total_aplicable)
       ELSE Cero

\* preguntas_no_cumplen of the PDF and of the section detail
PdfNoCumplen(preguntas, seccion) ==
    SelectSeq(preguntas,
              LAMBDA p : p.seccion = seccion /\ p.respuesta = NO_CUMPLE)

\* variant: the detail lists every entry of the section that is not compliant
DetalleNoCumplenNoConformes(ultimo_formulario, seccion) ==
    SelectSeq(ultimo_formulario.preguntas,
              LAMBDA p : p.seccion = seccion /\ p.respuesta # CUMPLE)

DetalleNoCumplen(ultimo_formulario, seccion) ==
    SelectSeq(ultimo_formulario.preguntas,
              LAMBDA p : p.seccion = seccion /\ p.respuesta = NO_CUMPLE)

generate_pdf_report(estadisticas, preguntas) ==
    [s \in DOMAIN estadisticas.secciones |->
        [porcentaje |-> PdfPorcentaje(estadisticas.secciones[s]),
         no_conformidades |-> estadisticas.secciones[s].no_cumple,
         preguntas_no_cumplen |-> PdfNoCumplen(preguntas, s)]]

\* PREGUNTAS_SST of formulario_verificacion_page, cut down to the first
\* questions of its first two sections; an id is the string of the source,
\* one character per element
PREGUNTAS_SST ==
    <<[seccion |-> "gestion_administrativa",
       questions |-> << <<"g", "a", "1">>, <<"g", "a", "2">>, <<"g", "a", "3">> >>],
      [seccion |-> "gestion_tecnica",
       questions |-> << <<"g", "t", "1">>, <<"g", "t", "2">> >>]>>

ValorDigito ==
    [c \in {"0", "1", "2", "3", "4", "5", "6", "7", "8", "9"} |->
        CASE c = "0" -> 0 [] c = "1" -> 1 [] c = "2" -> 2 [] c = "3" -> 3
          [] c = "4" -> 4 [] c = "5" -> 5 [] c = "6" -> 6 [] c = "7" -> 7
          [] c = "8" -> 8 [] c = "9" -> 9]

\* int(''.join(filter(str.isdigit, pregunta["id"])))
RECURSIVE ParseInt(_)
ParseInt(digitos) ==
    IF digitos = <<>> THEN 0
    ELSE 10 * ParseInt(SubSeq(digitos, 1, Len(digitos) - 1))
         + ValorDigito[digitos[Len(digitos)]]

IdNumero(id) == ParseInt(SelectSeq(id, LAMBDA c : c \in DOMAIN ValorDigito))

\* the questions of the catalog in the order the form walks them
PreguntasCatalogo ==
    LET RECURSIVE Aplanar(_)
        Aplanar(i) ==
            IF i > Len(PREGUNTAS_SST) THEN <<>>
            ELSE [j \in 1..Len(PREGUNTAS_SST[i].questions) |->
                     [seccion |-> PREGUNTAS_SST[i].seccion,
                      id |-> PREGUNTAS_SST[i].questions[j]]]
                 \o Aplanar(i + 1)
    IN Aplanar(1)

\* the options of the form's radio and its value before a choice is made
OpcionesRadio == {CUMPLE, NO_CUMPLE, NO_APLICA, None}

\* preguntas_respuestas built on submit; opcion gives the radio of each
\* question of the catalog
preguntas_respuestas(opcion) ==
    [k \in 1..Len(PreguntasCatalogo) |->
        [id |-> IdNumero(PreguntasCatalogo[k].id),
         seccion |-> PreguntasCatalogo[k].seccion,
         respuesta |-> opcion[k]]]

PantallaInicial ==
    [pagina |-> "inicio", estado |-> "", mensajes |-> {},
     barras |-> <<>>, detalle |-> <<>>, pdf |-> <<>>]

\* what one run of reportes_page shows for the backend's reply; pdf_click
\* tells whether the run was started by the PDF button
RenderReportes(resp, pdf_click) ==
    IF resp.status = 200
    THEN LET estadisticas == resp.estadisticas
             ultimo_formulario == resp.ultimo_formulario
         IN [pagina |-> "reportes", estado |-> "reporte", mensajes |-> {},
             barras |-> [s \in DOMAIN estadisticas.secciones |->
                            BarPorcentaje(estadisticas.secciones[s])],
             detalle |-> [s \in DOMAIN estadisticas.secciones |->
                 [porcentaje |-> DetallePorcentaje(estadisticas.secciones[s]),
                  preguntas_no_cumplen |->
                      DetalleNoCumplen(ultimo_formulario, s)]],
             pdf |-> IF pdf_click
                     THEN generate_pdf_report(estadisticas,
                                              ultimo_formulario.preguntas)
                     ELSE <<>>]
    ELSE [PantallaInicial EXCEPT
            !.pagina = "reportes", !.estado = "sin_datos",
            !.mensajes =
                {"No hay suficientes datos para generar un reporte completo",
                 "Complete al menos una verificacion para generar reportes detallados"}]

\* -------------------------------------------------------------- handlers
Empresa == [ruc : RUCS, razon_social : RazonesSociales]

\* company records that differ in more than the ruc
EmpresasRegistro == [ruc : RUCS, razon_social : {"n1", "n2"}]

\* st.session_state.empresa_actual = None
SinEmpresa == [ruc |-> "None", razon_social |-> "None"]

\* pwd_context.hash and pwd_context.verify: the hash is kept as the tagged
\* password, which only verificar_password reads
Hash(password) == <<"bcrypt", password>>

verificar_password(plain_password, hashed_password) ==
    Hash(plain_password) = hashed_password

\* DATABASE["usuarios"]: the one user the module registers
UsuarioInicial ==
    [cedula |-> "1722212253", hashed_password |-> Hash("1722212253"),
     nombre |-> "Inspector Principal", rol |-> "admin"]

\* st.session_state.user_info = {}
SinUsuario == [k \in {} |-> ""]

\* the session state the front end script sets where a key is missing
SesionInicial ==
    /\ logged_in = FALSE
    /\ token = None
    /\ user_info = SinUsuario
    /\ current_page = "inicio"
    /\ previous_page = None

Init ==
    /\ usuarios = ("1722212253" :> UsuarioInicial)
    /\ empresas = <<>>
    /\ formularios = <<>>
    /\ request = [op |-> "none"]
    /\ response = [status |-> 0]
    /\ empresa_actual = SinEmpresa
    /\ pantalla = PantallaInicial
    /\ SesionInicial

RECURSIVE TotalEntradas(_)
TotalEntradas(fs) ==
    IF fs = <<>> THEN 0 ELSE Len(Head(fs).preguntas) + TotalEntradas(Tail(fs))

\* POST /empresas/ without the test for a registered ruc
CrearEmpresaSobrescribe(empresa) ==
    /\ request' = [op |-> "crear_empresa", empresa |-> empresa]
    /\ empresas' = [r \in DOMAIN empresas \cup {empresa.ruc} |->
                      IF r = empresa.ruc THEN empresa ELSE empresas[r]]
    /\ response' = [status |-> 200, body |-> empresa]
    /\ UNCHANGED <<sesion, usuarios, formularios, empresa_actual, pantalla>>

\* POST /empresas/ storing the new record as the whole registry
CrearEmpresaReemplaza(empresa) ==
    /\ request' = [op |-> "crear_empresa", empresa |-> empresa]
    /\ IF empresa.ruc \in DOMAIN empresas
       THEN /\ response' = [status |-> 400, detail |-> "Empresa ya registrada"]
            /\ UNCHANGED empresas
       ELSE /\ empresas' = (empresa.ruc :> empresa)
            /\ response' = [status |-> 200, body |-> empresa]
    /\ UNCHANGED <<sesion, usuarios, formularios, empresa_actual, pantalla>>

\* POST /empresas/
CrearEmpresa(empresa) ==
    /\ request' = [op |-> "crear_empresa", empresa |-> empresa]
    /\ IF empresa.ruc \in DOMAIN empresas
       THEN /\ response' = [status |-> 400, detail |-> "Empresa ya registrada"]
            /\ UNCHANGED empresas
       ELSE /\ empresas' = empresas @@ (empresa.ruc :> empresa)
            /\ response' = [status |-> 200, body |-> empresa]
    /\ UNCHANGED <<sesion, usuarios, formularios, empresa_actual, pantalla>>

\* POST /formularios/ ; fecha is the body's fecha; cedula is the bearer token
guardar_formulario(ruc, fecha, inspector, preguntas, cedula) ==
    LET formulario == [empresa_ruc |-> ruc, inspector_cedula |-> cedula,
                       fecha |-> fecha, preguntas |-> preguntas]
        nuevo == DictSet(formularios, formulario)
    IN /\ Len(nuevo) <= MaxFormularios
       /\ request' = [op |-> "guardar_formulario", cedula |-> cedula,
                      inspector_cedula |-> inspector]
       /\ formularios' = nuevo
       /\ response' = [status |-> 200, body |-> formulario]
       /\ UNCHANGED <<usuarios, empresas>>

\* variant: a submission for a ruc that is not registered is refused
GuardarFormularioRegistrada(ruc, fecha, inspector, preguntas, cedula) ==
    /\ IF ruc \in DOMAIN empresas
       THEN guardar_formulario(ruc, fecha, inspector, preguntas, cedula)
       ELSE /\ request' = [op |-> "guardar_formulario", cedula |-> cedula,
                           inspector_cedula |-> inspector]
            /\ response' = [status |-> 404, detail |-> "Empresa no encontrada"]
            /\ UNCHANGED <<usuarios, empresas, formularios>>
    /\ UNCHANGED <<sesion, empresa_actual, pantalla>>

\* variant: the submission keeps the inspector_cedula of the request body
GuardarFormularioDelCuerpo(ruc, fecha, inspector, preguntas, cedula) ==
    LET formulario == [empresa_ruc |-> ruc, inspector_cedula |-> inspector,
                       fecha |-> fecha, preguntas |-> preguntas]
        nuevo == DictSet(formularios, formulario)
    IN /\ Len(nuevo) <= MaxFormularios
       /\ request' = [op |-> "guardar_formulario", cedula |-> cedula,
                      inspector_cedula |-> inspector]
       /\ formularios' = nuevo
       /\ response' = [status |-> 200, body |-> formulario]
       /\ UNCHANGED <<usuarios, empresas, sesion, empresa_actual, pantalla>>

\* the request sent by a client other than the front end's session
GuardarFormulario(ruc, fecha, inspector, preguntas, cedula) ==
    /\ guardar_formulario(ruc, fecha, inspector, preguntas, cedula)
    /\ UNCHANGED <<sesion, empresa_actual, pantalla>>

\* GET /reportes/{empresa_ruc} taking the reported submissions out of the store
GenerarReporteConsume(ruc) ==
    /\ request' = [op |-> "generar_reporte", empresa_ruc |-> ruc]
    /\ response' = generar_reporte_empresa(empresas, formularios, ruc)
    /\ formularios' = SelectSeq(formularios, LAMBDA f : f.empresa_ruc # ruc)
    /\ UNCHANGED <<sesion, usuarios, empresas, empresa_actual, pantalla>>

\* GET /reportes/{empresa_ruc}
GenerarReporte(ruc) ==
    /\ request' = [op |-> "generar_reporte", empresa_ruc |-> ruc]
    /\ response' = generar_reporte_empresa(empresas, formularios, ruc)
    /\ UNCHANGED <<sesion, usuarios, empresas, formularios, empresa_actual, pantalla>>

\* GET /empresas/{ruc}
buscar_empresa(db_empresas, ruc) ==
    IF ruc \in DOMAIN db_empresas
    THEN [status |-> 200, body |-> db_empresas[ruc]]
    ELSE [status |-> 404, detail |-> "Empresa no encontrada"]

BuscarEmpresa(ruc) ==
    /\ request' = [op |-> "buscar_empresa", ruc |-> ruc]
    /\ response' = buscar_empresa(empresas, ruc)
    /\ UNCHANGED <<sesion, usuarios, empresas, formularios, empresa_actual, pantalla>>

\* GET /formularios/{empresa_ruc}
obtener_formularios_empresa(db_formularios, empresa_ruc) ==
    SelectSeq(db_formularios, LAMBDA f : f.empresa_ruc = empresa_ruc)

ObtenerFormularios(ruc) ==
    /\ request' = [op |-> "obtener_formularios", empresa_ruc |-> ruc]
    /\ response' = [status |-> 200,
                    body |-> obtener_formularios_empresa(formularios, ruc)]
    /\ UNCHANGED <<sesion, usuarios, empresas, formularios, empresa_actual, pantalla>>

\* formulario_verificacion_page, button "Cargar Empresa"
CargarEmpresa(ruc) ==
    LET resp == buscar_empresa(empresas, ruc)
    IN /\ request' = [op |-> "buscar_empresa", ruc |-> ruc]
       /\ response' = resp
       /\ empresa_actual' = IF resp.status = 200 THEN resp.body
                            ELSE empresa_actual
       /\ pantalla' = [PantallaInicial EXCEPT
               !.pagina = "formulario_verificacion",
               !.estado = IF resp.status = 200 THEN "cargada" ELSE "no_encontrada"]
       /\ UNCHANGED <<sesion, usuarios, empresas, formularios>>

\* one run of reportes_page
ReportesPage(pdf_click) ==
    IF empresa_actual # SinEmpresa
    THEN LET resp == generar_reporte_empresa(empresas, formularios,
                                             empresa_actual.ruc)
         IN /\ request' = [op |-> "generar_reporte",
                           empresa_ruc |-> empresa_actual.ruc]
            /\ response' = resp
            /\ pantalla' = RenderReportes(resp, pdf_click)
            /\ UNCHANGED <<sesion, usuarios, empresas, formularios, empresa_actual>>
    ELSE /\ pantalla' = [PantallaInicial EXCEPT
                !.pagina = "reportes", !.estado = "sin_empresa"]
         /\ UNCHANGED <<sesion, usuarios, empresas, formularios, empresa_actual,
                        request, response>>

VerReportes == ReportesPage(FALSE)

\* button "Generar Reporte PDF": the page runs again and builds the PDF; the
\* button exists only where the report was shown
GenerarPdf ==
    /\ pantalla.pagina = "reportes"
    /\ pantalla.estado = "reporte"
    /\ ReportesPage(TRUE)

\* ----------------------------------------------------- front end session
\* the pages the dispatcher at the end of the script renders
Paginas == {"dashboard", "gestion_empresas", "formulario_verificacion", "reportes"}

\* a page right after the script ran again, before any of its buttons
PantallaDe(pagina) == [PantallaInicial EXCEPT !.pagina = pagina]

\* FormularioVerificacion.fecha when the body has none: datetime.now() taken
\* once, when the class is defined
FechaPorDefecto == 1

\* POST /token
login(db_usuarios, username, password) ==
    IF /\ username \in DOMAIN db_usuarios
       /\ verificar_password(password, db_usuarios[username].hashed_password)
    THEN [status |-> 200,
          access_token |-> db_usuarios[username].cedula,
          token_type |-> "bearer",
          nombre |-> db_usuarios[username].nombre,
          rol |-> db_usuarios[username].rol]
    ELSE [status |-> 401, detail |-> "Cedula o contrasena incorrecta"]

\* variant: a successful login leaves current_page as it was
LoginPageSinPagina(cedula, password) ==
    LET resp == login(usuarios, cedula, password)
    IN /\ ~logged_in
       /\ request' = [op |-> "login", username |-> cedula, password |-> password]
       /\ response' = resp
       /\ IF resp.status = 200
          THEN /\ logged_in' = TRUE
               /\ token' = resp.access_token
               /\ user_info' = [nombre |-> resp.nombre, cedula |-> cedula,
                                rol |-> resp.rol]
               /\ UNCHANGED current_page
               /\ pantalla' = PantallaDe(current_page)
          ELSE /\ UNCHANGED <<logged_in, token, user_info, current_page>>
               /\ pantalla' = [PantallaDe("inicio") EXCEPT
                                  !.estado = "credenciales_incorrectas"]
       /\ UNCHANGED <<previous_page, empresa_actual, usuarios, empresas,
                      formularios>>

\* login_page, button "Iniciar Sesion"
LoginPage(cedula, password) ==
    LET resp == login(usuarios, cedula, password)
    IN /\ ~logged_in
       /\ request' = [op |-> "login", username |-> cedula, password |-> password]
       /\ response' = resp
       /\ IF resp.status = 200
          THEN /\ logged_in' = TRUE
               /\ token' = resp.access_token
               /\ user_info' = [nombre |-> resp.nombre, cedula |-> cedula,
                                rol |-> resp.rol]
               /\ current_page' = "dashboard"
               /\ pantalla' = PantallaDe("dashboard")
          ELSE /\ UNCHANGED <<logged_in, token, user_info, current_page>>
               /\ pantalla' = [PantallaDe("inicio") EXCEPT
                                  !.estado = "credenciales_incorrectas"]
       /\ UNCHANGED <<previous_page, empresa_actual, usuarios, empresas,
                      formularios>>

\* dashboard_page, a button of the sidebar menu
MenuClick(page) ==
    /\ logged_in
    /\ current_page = "dashboard"
    /\ previous_page' = current_page
    /\ current_page' = page
    /\ pantalla' = PantallaDe(page)
    /\ UNCHANGED <<logged_in, token, user_info, empresa_actual, usuarios,
                   empresas, formularios, request, response>>

\* dashboard_page, a button of "Acciones Rapidas"
AccionRapida(page) ==
    /\ logged_in
    /\ current_page = "dashboard"
    /\ page \in {"gestion_empresas", "formulario_verificacion", "reportes"}
    /\ previous_page' = current_page
    /\ current_page' = page
    /\ pantalla' = PantallaDe(page)
    /\ UNCHANGED <<logged_in, token, user_info, empresa_actual, usuarios,
                   empresas, formularios, request, response>>

\* variant: logging out also forgets the selected company
LogoutLimpia ==
    /\ logged_in
    /\ current_page = "dashboard"
    /\ logged_in' = FALSE
    /\ token' = None
    /\ current_page' = "inicio"
    /\ empresa_actual' = SinEmpresa
    /\ pantalla' = PantallaDe("inicio")
    /\ UNCHANGED <<user_info, previous_page, usuarios,
                   empresas, formularios, request, response>>

\* dashboard_page, button "Cerrar Sesion"
Logout ==
    /\ logged_in
    /\ current_page = "dashboard"
    /\ logged_in' = FALSE
    /\ token' = None
    /\ current_page' = "inicio"
    /\ pantalla' = PantallaDe("inicio")
    /\ UNCHANGED <<user_info, previous_page, empresa_actual, usuarios,
                   empresas, formularios, request, response>>

\* go_back, the on_click of the button "Regresar" of the three other pages
go_back ==
    /\ logged_in
    /\ current_page \in Paginas \ {"dashboard"}
    /\ current_page' = IF previous_page # None THEN previous_page
                       ELSE "dashboard"
    /\ pantalla' = PantallaDe(current_page')
    /\ UNCHANGED <<logged_in, token, user_info, previous_page, empresa_actual,
                   usuarios, empresas, formularios, request, response>>

\* reportes_page without a company, button "Ir a Formulario de Verificacion"
IrAFormulario ==
    /\ logged_in
    /\ current_page = "reportes"
    /\ empresa_actual = SinEmpresa
    /\ current_page' = "formulario_verificacion"
    /\ pantalla' = PantallaDe("formulario_verificacion")
    /\ UNCHANGED <<logged_in, token, user_info, previous_page, empresa_actual,
                   usuarios, empresas, formularios, request, response>>

\* formulario_verificacion_page, button "Guardar Formulario Completo"; opcion
\* is the state of the radios
EnviarFormulario(opcion) ==
    /\ logged_in
    /\ current_page = "formulario_verificacion"
    /\ empresa_actual # SinEmpresa
    /\ guardar_formulario(empresa_actual.ruc, FechaPorDefecto, user_info.cedula,
                          preguntas_respuestas(opcion), token)
    /\ current_page' = "reportes"
    /\ pantalla' = PantallaDe("reportes")
    /\ UNCHANGED <<logged_in, token, user_info, previous_page, empresa_actual>>

\* ---------------------------------------------------------- specifications
\* question entries the store still has room for when the form keyed
\* (ruc, fecha) is written
Capacidad(ruc, fecha) ==
    MaxEntradas - TotalEntradas(SelectSeq(formularios,
                      LAMBDA f : formulario_id(f) # <<ruc, fecha>>))

EmpresaR1 == [ruc |-> "r1", razon_social |-> "n1"]

\* the backend driven through its HTTP interface
Next ==
    \/ \E e \in Empresa : CrearEmpresa(e)
    \/ \E ruc \in RUCS, fecha \in Fechas, inspector \in Cedulas, cedula \in Cedulas :
         \E preguntas \in SeqsUpTo(PreguntasAPI, Capacidad(ruc, fecha)) :
            GuardarFormulario(ruc, fecha, inspector, preguntas, cedula)
    \/ \E ruc \in RUCS : GenerarReporte(ruc)
    \/ \E ruc \in RUCS : BuscarEmpresa(ruc)
    \/ \E ruc \in RUCS : ObtenerFormularios(ruc)

Spec == Init /\ [][Next]_vars

\* the aggregation over the submissions of one registered company, with
\* every answer token
InitAgg ==
    /\ usuarios = ("1722212253" :> UsuarioInicial)
    /\ empresas = ("r1" :> EmpresaR1)
    /\ formularios = <<>>
    /\ request = [op |-> "crear_empresa", empresa |-> EmpresaR1]
    /\ response = [status |-> 200, body |-> EmpresaR1]
    /\ empresa_actual = SinEmpresa
    /\ pantalla = PantallaInicial
    /\ SesionInicial

NextAgg ==
    \/ \E fecha \in Fechas, inspector \in Cedulas, cedula \in Cedulas :
         \E preguntas \in SeqsUpTo(PreguntasAgg, Capacidad("r1", fecha)) :
            GuardarFormulario("r1", fecha, inspector, preguntas, cedula)
    \/ GenerarReporte("r1")

SpecAgg == InitAgg /\ [][NextAgg]_vars

\* the report page: submissions arrive through the HTTP interface before the
\* inspector's session shows its first page, then the pages run
SesionNoIniciada == pantalla = PantallaInicial /\ empresa_actual = SinEmpresa

NextReportes ==
    \/ /\ SesionNoIniciada
       /\ CrearEmpresa(EmpresaR1)
    \/ /\ SesionNoIniciada
       /\ \E fecha \in Fechas, inspector \in Cedulas, cedula \in Cedulas :
            \E preguntas \in SeqsUpTo(PreguntasRep, Capacidad("r1", fecha)) :
               GuardarFormulario("r1", fecha, inspector, preguntas, cedula)
    \/ \E ruc \in RUCS : CargarEmpresa(ruc)
    \/ VerReportes
    \/ GenerarPdf

SpecReportes == Init /\ [][NextReportes]_vars

\* the company registry: records with the same ruc and different names, read
\* back through every endpoint
NextEmpresas ==
    \/ \E e \in EmpresasRegistro : CrearEmpresa(e)
    \/ \E ruc \in RUCS, fecha \in Fechas, inspector \in Cedulas, cedula \in Cedulas :
         \E preguntas \in SeqsUpTo(PreguntasAPI, 1) :
            GuardarFormulario(ruc, fecha, inspector, preguntas, cedula)
    \/ \E ruc \in RUCS : GenerarReporte(ruc)
    \/ \E ruc \in RUCS : BuscarEmpresa(ruc)
    \/ \E ruc \in RUCS : ObtenerFormularios(ruc)

SpecEmpresas == Init /\ [][NextEmpresas]_vars

\* the aggregation over submissions with several sections, one registered
\* company
NextEscenario ==
    \/ \E fecha \in Fechas, inspector \in Cedulas, cedula \in Cedulas :
         \E preguntas \in ListasEscenario :
            GuardarFormulario("r1", fecha, inspector, preguntas, cedula)
    \/ GenerarReporte("r1")

SpecEscenario == InitAgg /\ [][NextEscenario]_vars

\* submissions whose bearer token and body name different inspectors;
\* oauth2_scheme hands the bearer token on as it came
Tokens == {"1722212253", "0999999999"}

NextInspector ==
    \/ \E fecha \in Fechas, inspector \in Tokens, cedula \in Tokens :
         \E preguntas \in SeqsUpTo(PreguntasAPI, 1) :
            GuardarFormulario("r1", fecha, inspector, preguntas, cedula)
    \/ GenerarReporte("r1")
    \/ ObtenerFormularios("r1")

SpecInspector == InitAgg /\ [][NextInspector]_vars

\* one session of the front end against the backend with one registered
\* company; a page's handlers run when the dispatcher renders that page
CedulasLogin == {"1722212253", "0000000000"}
Passwords == {"1722212253", "clave"}

\* the states of the form's radios with at most MaxRespondidas of them chosen
OpcionesFormulario ==
    {opcion \in [1..Len(PreguntasCatalogo) -> OpcionesRadio] :
        Cardinality({k \in DOMAIN opcion : opcion[k] # None}) <= MaxRespondidas}

NextSesion ==
    \/ \E cedula \in CedulasLogin, password \in Passwords :
         LoginPage(cedula, password)
    \/ \E page \in Paginas : MenuClick(page)
    \/ \E page \in Paginas : AccionRapida(page)
    \/ Logout
    \/ go_back
    \/ IrAFormulario
    \/ /\ logged_in
       /\ current_page = "formulario_verificacion"
       /\ \E ruc \in RUCS : CargarEmpresa(ruc)
    \/ \E opcion \in OpcionesFormulario : EnviarFormulario(opcion)
    \/ /\ logged_in
       /\ current_page = "reportes"
       /\ VerReportes

SpecSesion == InitAgg /\ [][NextSesion]_vars

\* ------------------------------------------------------------ properties
\* the question entries of the submissions stored for ruc, as positions
Entradas(ruc) ==
    UNION {{<<i, j>> : j \in 1..Len(formularios[i].preguntas)} :
             i \in {k \in 1..Len(formularios) : formularios[k].empresa_ruc = ruc}}

EntradaEn(e) == formularios[e[1]].preguntas[e[2]]

EntradasCon(ruc, respuesta) ==
    {e \in Entradas(ruc) : EntradaEn(e).respuesta = respuesta}

EntradasSeccion(ruc, seccion, respuesta) ==
    {e \in EntradasCon(ruc, respuesta) : EntradaEn(e).seccion = seccion}

\* the reply in hand is a report for ruc
ReporteDe(ruc) ==
    /\ request.op = "generar_reporte"
    /\ request.empresa_ruc = ruc
    /\ response.status = 200

RECURSIVE Suma(_, _)
Suma(S, f) ==
    IF S = {} THEN 0
    ELSE LET x == CHOOSE y \in S : TRUE IN f[x] + Suma(S \ {x}, f)

\* the stored submission of ruc with the largest fecha
MasReciente(ruc) ==
    LET fs == FormulariosDe(formularios, ruc)
    IN fs[CHOOSE i \in 1..Len(fs) : \A k \in 1..Len(fs) : fs[k].fecha <= fs[i].fecha]

\* C1: a report's cumplimiento_promedio is the number of entries answered
\* Cumple over the number of all entries of the company's submissions,
\* not-applicable and unanswered ones included, times 100, rounded to two
\* decimals (the nearest hundredth).
C1_PromedioGlobal ==
    \A ruc \in RUCS :
        ReporteDe(ruc) =>
            LET c == Cardinality(EntradasCon(ruc, CUMPLE))
                t == Cardinality(Entradas(ruc))
                p == response.estadisticas.cumplimiento_promedio
            IN t > 0 => /\ 2 * (p * t - 10000 * c) <= t
                        /\ 2 * (10000 * c - p * t) <= t

C1_Witness ==
    /\ ReporteDe("r1")
    /\ Len(FormulariosDe(formularios, "r1")) = 2
    /\ EntradasCon("r1", NO_APLICA) # {}
    /\ EntradasCon("r1", None) # {}
    /\ response.estadisticas.cumplimiento_promedio = 3333

\* C2: for every section of a report the bar chart, the section detail and
\* the PDF show the same percentage: cumple / (total - no_aplica) x 100 when
\* total - no_aplica > 0, and 0 when it is 0, never a division error.
MismoValor(x, y) == x.ok /\ y.ok /\ x.num * y.den = y.num * x.den

C2_PorcentajeSeccion ==
    pantalla.estado = "reporte" =>
        \A s \in DOMAIN response.estadisticas.secciones :
            LET datos == response.estadisticas.secciones[s]
                aplicable == datos.total - datos.no_aplica
                barra == pantalla.barras[s]
            IN /\ barra.ok
               /\ aplicable > 0 =>
                    barra.num * aplicable = datos.cumple * 100 * barra.den
               /\ aplicable = 0 => barra.num = 0
               /\ MismoValor(pantalla.detalle[s].porcentaje, barra)
               /\ pantalla.pdf # <<>> =>
                    MismoValor(pantalla.pdf[s].porcentaje, barra)

C2_Witness ==
    /\ pantalla.estado = "reporte"
    /\ pantalla.pdf # <<>>
    /\ \E s \in DOMAIN response.estadisticas.secciones :
         /\ response.estadisticas.secciones[s].total = 3
         /\ response.estadisticas.secciones[s].no_aplica = 3
    /\ \E s \in DOMAIN pantalla.barras : pantalla.barras[s] = Cero

\* C3: the report page run for a registered company without submissions
\* gets 404 "No hay formularios para esta empresa", no report, and shows the
\* "complete at least one verification" message and no statistics.
SinFormularios ==
    /\ pantalla.pagina = "reportes"
    /\ empresa_actual # SinEmpresa
    /\ empresa_actual.ruc \in DOMAIN empresas
    /\ FormulariosDe(formularios, empresa_actual.ruc) = <<>>

C3_SinDatos ==
    SinFormularios =>
        /\ response = [status |-> 404,
                       detail |-> "No hay formularios para esta empresa"]
        /\ pantalla.estado = "sin_datos"
        /\ "Complete al menos una verificacion para generar reportes detallados"
               \in pantalla.mensajes
        /\ pantalla.barras = <<>>
        /\ pantalla.detalle = <<>>
        /\ pantalla.pdf = <<>>

C3_Witness ==
    /\ SinFormularios
    /\ request.op = "generar_reporte"
    /\ formularios = <<>>

\* C4: a report request for a ruc without company record is answered 404
\* "Empresa no encontrada" and nothing else, also when submissions are
\* stored under that ruc.
C4_EmpresaDesconocida ==
    \A ruc \in RUCS :
        (/\ request.op = "generar_reporte"
         /\ request.empresa_ruc = ruc
         /\ ruc \notin DOMAIN empresas)
        => response = [status |-> 404, detail |-> "Empresa no encontrada"]

C4_Witness ==
    /\ request.op = "generar_reporte"
    /\ request.empresa_ruc = "r2"
    /\ "r2" \notin DOMAIN empresas
    /\ Len(FormulariosDe(formularios, "r2")) = 2
    /\ response.status = 404

\* C5: the ultimo_formulario of a report is the company's stored submission
\* with the largest fecha.
C5_UltimoEsMasReciente ==
    \A ruc \in RUCS :
        ReporteDe(ruc) => response.ultimo_formulario = MasReciente(ruc)

\* C6: the non-conformities listed for a section, on screen and in the PDF,
\* are the entries of the most recent submission with that section and the
\* answer No cumple, in their order within that submission.
NoConformidades(ruc, seccion) ==
    SelectSeq(MasReciente(ruc).preguntas,
              LAMBDA p : p.seccion = seccion /\ p.respuesta = NO_CUMPLE)

C6_NoConformidadesRecientes ==
    pantalla.estado = "reporte" =>
        \A s \in DOMAIN pantalla.detalle :
            /\ pantalla.detalle[s].preguntas_no_cumplen
                   = NoConformidades(empresa_actual.ruc, s)
            /\ pantalla.pdf # <<>> =>
                   pantalla.pdf[s].preguntas_no_cumplen
                       = NoConformidades(empresa_actual.ruc, s)

\* C7: over all sections of a report, compliant + non-compliant +
\* not-applicable + unanswered adds up to the number of question entries of
\* the company's submissions.
SinRespuesta(ruc, seccion) == Cardinality(EntradasSeccion(ruc, seccion, None))

C7_SumaSecciones ==
    \A ruc \in RUCS :
        ReporteDe(ruc) =>
            LET secs == response.estadisticas.secciones
            IN Suma(DOMAIN secs,
                    [s \in DOMAIN secs |->
                        secs[s].cumple + secs[s].no_cumple + secs[s].no_aplica
                        + SinRespuesta(ruc, s)])
               = Cardinality(Entradas(ruc))

\* C8: in every section of every report, total = cumple + no_cumple +
\* no_aplica + the number of the section's entries without an answer.
C8_TotalSeccion ==
    \A ruc \in RUCS :
        ReporteDe(ruc) =>
            \A s \in DOMAIN response.estadisticas.secciones :
                LET datos == response.estadisticas.secciones[s]
                IN datos.total = datos.cumple + datos.no_cumple
                                 + datos.no_aplica + SinRespuesta(ruc, s)

\* C9: cumplimiento_promedio of every report lies in [0, 100].
C9_PromedioEnRango ==
    \A ruc \in RUCS :
        ReporteDe(ruc) =>
            /\ response.estadisticas.cumplimiento_promedio >= 0
            /\ response.estadisticas.cumplimiento_promedio <= 10000

C9_Witness ==
    /\ ReporteDe("r1")
    /\ Cardinality(EntradasCon("r1", CUMPLE)) = 3
    /\ response.estadisticas.cumplimiento_promedio = 10000

\* C10: an entry whose answer is outside the three tokens is counted in none
\* of cumple, no_cumple and no_aplica, and the report is still produced.
C10_MalformadaSinCubeta ==
    \A ruc \in RUCS :
        ReporteDe(ruc) =>
            \A s \in DOMAIN response.estadisticas.secciones :
                LET datos == response.estadisticas.secciones[s]
                IN datos.cumple + datos.no_cumple + datos.no_aplica
                   <= datos.total
                      - Cardinality(EntradasSeccion(ruc, s, Malformada))

\* total_verificaciones of the report generar_reporte_empresa gives for ruc on
\* a store; 0 when it answers 404
TotalVerificacionesDe(db_empresas, db_formularios, ruc) ==
    LET r == generar_reporte_empresa(db_empresas, db_formularios, ruc)
    IN IF r.status = 200 THEN r.estadisticas.total_verificaciones ELSE 0

\* the step is a guardar_formulario request for ruc
GuardaPara(ruc) ==
    /\ request'.op = "guardar_formulario"
    /\ response'.body.empresa_ruc = ruc

\* C11: every successful guardar_formulario for a registered company raises
\* the total_verificaciones of its report by one, whether or not the saved
\* submission carries the fecha of an earlier one.
C11_CadaGuardadoCuenta ==
    [][\A ruc \in DOMAIN empresas :
          GuardaPara(ruc) =>
             TotalVerificacionesDe(empresas', formularios', ruc)
               = TotalVerificacionesDe(empresas, formularios, ruc) + 1]_vars

\* C12: obtener_formularios_empresa(ruc) returns exactly the submissions saved
\* for ruc, in the order saved: a save for ruc appends the saved submission to
\* the list returned for ruc and leaves the list of every other ruc alone.
C12_ListaEnOrdenDeGuardado ==
    [][\A ruc \in RUCS :
          IF GuardaPara(ruc)
          THEN obtener_formularios_empresa(formularios', ruc)
                 = Append(obtener_formularios_empresa(formularios, ruc),
                          response'.body)
          ELSE request'.op = "guardar_formulario" =>
                  obtener_formularios_empresa(formularios', ruc)
                    = obtener_formularios_empresa(formularios, ruc)]_vars

\* C13: a company is never deleted: a ruc that buscar_empresa finds is found,
\* with the same record, after every step.
C13_EmpresaPermanece ==
    [][\A ruc \in RUCS :
          buscar_empresa(empresas, ruc).status = 200 =>
             buscar_empresa(empresas', ruc) = buscar_empresa(empresas, ruc)]_vars

\* r1 was registered, another company was registered later, and a lookup of
\* r1 answered with its record
C13_Witness ==
    /\ request.op = "buscar_empresa"
    /\ request.ruc = "r1"
    /\ response.status = 200
    /\ response.body \in EmpresasRegistro
    /\ response.body.ruc = "r1"
    /\ "r2" \in DOMAIN empresas
    /\ formularios # <<>>

\* C14: a report request, whether it answers 200 or 404, leaves the users,
\* the companies and the submissions as they were.
C14_ReporteSinEfectos ==
    [][request'.op = "generar_reporte" =>
          /\ usuarios' = usuarios
          /\ empresas' = empresas
          /\ formularios' = formularios]_vars

\* a report was answered over a store that holds submissions of the reported
\* company and of another ruc
C14_Witness ==
    /\ ReporteDe("r1")
    /\ response.estadisticas.total_verificaciones = 1
    /\ \E i \in 1..Len(formularios) : formularios[i].empresa_ruc = "r2"

\* the sum of one counter over the sections of a report
SumaSecciones(secciones, campo) ==
    Suma(DOMAIN secciones, [s \in DOMAIN secciones |-> secciones[s][campo]])

\* C15: the report is computed from the store as it stands: a report asked
\* for a registered company right after a submission was saved for it answers
\* 200 and counts the store's submissions and entries, the saved one included.
C15_ReporteAlDia ==
    [][\A ruc \in DOMAIN empresas :
          (/\ request.op = "guardar_formulario"
           /\ response.body.empresa_ruc = ruc
           /\ request'.op = "generar_reporte"
           /\ request'.empresa_ruc = ruc)
          => /\ \E i \in 1..Len(formularios) : formularios[i] = response.body
             /\ response'.status = 200
             /\ response'.estadisticas.total_verificaciones
                  = Cardinality({i \in 1..Len(formularios) :
                                   formularios[i].empresa_ruc = ruc})
             /\ SumaSecciones(response'.estadisticas.secciones, "total")
                  = Cardinality(Entradas(ruc))
             /\ SumaSecciones(response'.estadisticas.secciones, "cumple")
                  = Cardinality(EntradasCon(ruc, CUMPLE))
             /\ SumaSecciones(response'.estadisticas.secciones, "no_cumple")
                  = Cardinality(EntradasCon(ruc, NO_CUMPLE))]_vars

\* a report of r1 that counts two submissions, the later one with an entry
C15_Witness ==
    /\ ReporteDe("r1")
    /\ response.estadisticas.total_verificaciones = 2
    /\ Len(response.ultimo_formulario.preguntas) = 1

\* the entries of ruc in one section
EntradasDeSeccion(ruc, seccion) ==
    {e \in Entradas(ruc) : EntradaEn(e).seccion = seccion}

\* C16: in every report, each section's counters are the counts of that
\* section's own entries over all the stored submissions: total counts its
\* entries, cumple its "Cumple" entries, no_cumple its "No cumple" entries,
\* and no_aplica holds every "No aplica" entry, and exactly those when every
\* entry of the section carries one of the three answers.
C16_ContadoresPorSeccion ==
    ReporteDe("r1") =>
        \A s \in DOMAIN response.estadisticas.secciones :
            LET datos == response.estadisticas.secciones[s]
                n(respuesta) == Cardinality(EntradasSeccion("r1", s, respuesta))
            IN /\ datos.total = Cardinality(EntradasDeSeccion("r1", s))
               /\ datos.cumple = n(CUMPLE)
               /\ datos.no_cumple = n(NO_CUMPLE)
               /\ datos.no_aplica >= n(NO_APLICA)
               /\ (\A e \in EntradasDeSeccion("r1", s) :
                       EntradaEn(e).respuesta \in {CUMPLE, NO_CUMPLE, NO_APLICA})
                   => datos.no_aplica = n(NO_APLICA)

\* the report over one submission with two compliant and one non-compliant
\* entry of a section and one with a compliant and a not-applicable entry of
\* another section
C16_Witness ==
    /\ ReporteDe("r1")
    /\ {formularios[i].preguntas : i \in 1..Len(formularios)}
          = {EscenarioA, EscenarioB}
    /\ response.estadisticas.secciones
          = [gestion_administrativa |->
                [total |-> 3, cumple |-> 2, no_cumple |-> 1, no_aplica |-> 0],
             gestion_tecnica |->
                [total |-> 2, cumple |-> 1, no_cumple |-> 0, no_aplica |-> 1]]
    /\ response.estadisticas.cumplimiento_promedio = 6000

\* C17: an entry without an answer is in its section's total but not in
\* no_aplica, so it stays in the section's total - no_aplica next to the
\* compliant and the non-compliant entries.
C17_SinRespuestaEnDenominador ==
    ReporteDe("r1") =>
        \A s \in DOMAIN response.estadisticas.secciones :
            LET datos == response.estadisticas.secciones[s]
            IN datos.total - datos.no_aplica
                 >= datos.cumple + datos.no_cumple + SinRespuesta("r1", s)

\* C18: the section keys of every report are exactly the seccion values of
\* the entries stored for the company; a seccion outside the catalog has a
\* bucket of its own and the report still answers 200.
C18_ClavesDeSeccion ==
    /\ ReporteDe("r1") =>
          DOMAIN response.estadisticas.secciones
            = {EntradaEn(e).seccion : e \in Entradas("r1")}
    /\ (request.op = "generar_reporte" /\ formularios # <<>>) =>
          response.status = 200

\* a report with a bucket for a catalog section and one for a seccion that
\* is not in the catalog
C18_Witness ==
    /\ ReporteDe("r1")
    /\ DOMAIN response.estadisticas.secciones
          = {"gestion_tecnica", "seccion_desconocida"}
    /\ "seccion_desconocida" \notin Secciones
    /\ response.estadisticas.secciones["seccion_desconocida"].total = 1

\* the store cut down to one company: its record and its submissions, in
\* their stored order
SoloEmpresa(ruc) ==
    [r \in DOMAIN empresas \cap {ruc} |-> empresas[r]]

SoloFormularios(ruc) ==
    LET RECURSIVE Cortar(_)
        Cortar(i) ==
            IF i > Len(formularios) THEN <<>>
            ELSE IF formularios[i].empresa_ruc = ruc
                 THEN <<formularios[i]>> \o Cortar(i + 1)
                 ELSE Cortar(i + 1)
    IN Cortar(1)

\* C19: the reply to a report request for a company is the reply the same
\* request gets on the store that holds nothing but that company's record
\* and its submissions: no other company's record or submission changes it.
C19_SoloDatosPropios ==
    \A ruc \in RUCS :
        (request.op = "generar_reporte" /\ request.empresa_ruc = ruc) =>
            response = generar_reporte_empresa(SoloEmpresa(ruc),
                                               SoloFormularios(ruc), ruc)

\* a report of r1 while the store holds the record and a submission with
\* entries of r2, stored before r1's
C19_Witness ==
    /\ ReporteDe("r1")
    /\ "r2" \in DOMAIN empresas
    /\ formularios[1].empresa_ruc = "r2"
    /\ formularios[1].preguntas # <<>>

\* C20: crear_empresa with a ruc that is registered answers 400 "Empresa ya
\* registrada" and leaves the companies, the submissions and the users as
\* they were; the registry keeps one record per ruc, stored under its own
\* ruc.
C20_RucUnico ==
    [][/\ (request'.op = "crear_empresa"
           /\ request'.empresa.ruc \in DOMAIN empresas)
          => /\ response' = [status |-> 400, detail |-> "Empresa ya registrada"]
             /\ empresas' = empresas
             /\ formularios' = formularios
             /\ usuarios' = usuarios
       /\ \A r \in DOMAIN empresas' : empresas'[r].ruc = r]_vars

\* r1 is registered as n1, holds a submission, and a request to register r1
\* as n2 was refused
C20_Witness ==
    /\ request.op = "crear_empresa"
    /\ request.empresa = [ruc |-> "r1", razon_social |-> "n2"]
    /\ response.status = 400
    /\ empresas["r1"].razon_social = "n1"
    /\ formularios # <<>>

\* the question entry names a question of the catalog
EnCatalogo(pregunta) ==
    \E k \in 1..Len(PreguntasCatalogo) :
        /\ PreguntasCatalogo[k].seccion = pregunta.seccion
        /\ IdNumero(PreguntasCatalogo[k].id) = pregunta.id

\* C21: every question entry of every stored submission names a question of
\* the checklist catalog.
C21_EntradasDelCatalogo ==
    \A i \in 1..Len(formularios) :
        \A j \in 1..Len(formularios[i].preguntas) :
            EnCatalogo(formularios[i].preguntas[j])

\* C22: every answer held in a stored submission is "Cumple", "No cumple",
\* "No aplica" or absent.
C22_RespuestasPermitidas ==
    \A i \in 1..Len(formularios) :
        \A j \in 1..Len(formularios[i].preguntas) :
            formularios[i].preguntas[j].respuesta
                \in {CUMPLE, NO_CUMPLE, NO_APLICA, None}

\* C23: no two questions of the catalog carry the same id, and no two
\* question entries of a submission built by the verification form carry the
\* same id.
C23_IdsUnicos ==
    /\ \A i, j \in 1..Len(PreguntasCatalogo) :
          i # j => PreguntasCatalogo[i].id # PreguntasCatalogo[j].id
    /\ \A n \in 1..Len(formularios) :
          \A i, j \in 1..Len(formularios[n].preguntas) :
             i # j => formularios[n].preguntas[i].id
                        # formularios[n].preguntas[j].id

\* C24: a guardar_formulario request changes the one entry of the forms
\* store with the (empresa_ruc, fecha) of the submission: a stored entry with
\* that key is replaced where it stands, otherwise the submission is added at
\* the end; every other form, the companies and the users stay as they were.
C24_GuardarSoloSuClave ==
    [][request'.op = "guardar_formulario" =>
          LET f == response'.body
              K == {i \in 1..Len(formularios) :
                      /\ formularios[i].empresa_ruc = f.empresa_ruc
                      /\ formularios[i].fecha = f.fecha}
          IN /\ empresas' = empresas
             /\ usuarios' = usuarios
             /\ Cardinality(K) <= 1
             /\ IF K # {}
                THEN /\ Len(formularios') = Len(formularios)
                     /\ \A i \in 1..Len(formularios) :
                           formularios'[i] = IF i \in K THEN f ELSE formularios[i]
                ELSE formularios' = Append(formularios, f)]_vars

\* a save found its key stored first of two entries and replaced it there
C24_Witness ==
    /\ request.op = "guardar_formulario"
    /\ Len(formularios) = 2
    /\ formularios[1] = response.body
    /\ formularios[2].empresa_ruc = "r2"
    /\ response.body.preguntas # <<>>
    /\ "r1" \in DOMAIN empresas

\* C25: every guardar_formulario request answers 200 and stores its
\* submission, whether or not the company is registered; while a ruc has
\* stored submissions and no company record, the listing for that ruc
\* returns those submissions and the report for it answers 404 "Empresa no
\* encontrada".
C25_FormularioSinEmpresa ==
    /\ request.op = "guardar_formulario" =>
          /\ response.status = 200
          /\ \E i \in 1..Len(formularios) : formularios[i] = response.body
    /\ \A ruc \in RUCS \ DOMAIN empresas :
          SoloFormularios(ruc) # <<>> =>
             /\ (request.op = "obtener_formularios" /\ request.empresa_ruc = ruc)
                  => response = [status |-> 200, body |-> SoloFormularios(ruc)]
             /\ (request.op = "generar_reporte" /\ request.empresa_ruc = ruc)
                  => response = [status |-> 404,
                                 detail |-> "Empresa no encontrada"]

\* the listing for r2 returned a submission while r2 is not registered
C25_Witness ==
    /\ "r2" \notin DOMAIN empresas
    /\ request.op = "obtener_formularios"
    /\ request.empresa_ruc = "r2"
    /\ Len(response.body) = 1
    /\ response.body[1].empresa_ruc = "r2"

\* C26: the submission a guardar_formulario request returns and stores has
\* the request's bearer token as inspector_cedula, whatever inspector_cedula
\* the request body carried.
C26_InspectorEsElToken ==
    request.op = "guardar_formulario" =>
        /\ response.body.inspector_cedula = request.cedula
        /\ \A i \in 1..Len(formularios) :
              (/\ formularios[i].empresa_ruc = response.body.empresa_ruc
               /\ formularios[i].fecha = response.body.fecha)
              => formularios[i].inspector_cedula = request.cedula

\* a submission was saved whose body named another inspector than the token
C26_Witness ==
    /\ request.op = "guardar_formulario"
    /\ request.inspector_cedula # request.cedula
    /\ \E i \in 1..Len(formularios) :
          /\ formularios[i] = response.body
          /\ formularios[i].inspector_cedula = request.cedula

\* C27: for every section of every report shown, the non-conformities listed
\* from ultimo_formulario, on the page and in the PDF, are at most the
\* section's no_cumple, and as many as no_cumple when the company has one
\* stored submission.
C27_NoConformidadesAcotadas ==
    pantalla.estado = "reporte" =>
        \A s \in DOMAIN pantalla.detalle :
            LET no_cumple == response.estadisticas.secciones[s].no_cumple
                una == response.estadisticas.total_verificaciones = 1
                Acotada(lista) == /\ Len(lista) <= no_cumple
                                  /\ una => Len(lista) = no_cumple
            IN /\ Acotada(pantalla.detalle[s].preguntas_no_cumplen)
               /\ pantalla.pdf # <<>> =>
                     /\ Acotada(pantalla.pdf[s].preguntas_no_cumplen)
                     /\ pantalla.pdf[s].no_conformidades = no_cumple

\* a report over two submissions shows one non-conformity of a section
\* whose no_cumple is 2, with the PDF built
C27_Witness ==
    /\ pantalla.estado = "reporte"
    /\ pantalla.pdf # <<>>
    /\ response.estadisticas.total_verificaciones = 2
    /\ \E s \in DOMAIN pantalla.detalle :
          /\ Len(pantalla.detalle[s].preguntas_no_cumplen) = 1
          /\ response.estadisticas.secciones[s].no_cumple = 2

\* a percentage the front end computed without error, within [0, 100]
EnRango(p) == p.ok /\ p.den > 0 /\ 0 <= p.num /\ p.num <= 100 * p.den

\* C28: in every section of every report cumple <= total - no_aplica, and
\* the section percentages the report page shows lie in [0, 100].
C28_PorcentajeEnRango ==
    pantalla.estado = "reporte" =>
        \A s \in DOMAIN response.estadisticas.secciones :
            LET datos == response.estadisticas.secciones[s]
            IN /\ datos.cumple <= datos.total - datos.no_aplica
               /\ EnRango(pantalla.barras[s])
               /\ EnRango(pantalla.detalle[s].porcentaje)

\* the page shows 50% for a section that also holds a not-applicable entry
C28_Witness ==
    /\ pantalla.estado = "reporte"
    /\ \E s \in DOMAIN pantalla.barras :
          /\ response.estadisticas.secciones[s].no_aplica = 1
          /\ response.estadisticas.secciones[s].total = 3
          /\ pantalla.barras[s].num * 2 = 100 * pantalla.barras[s].den

\* C29: while the session is logged in, token is not None and current_page
\* is one of the four pages the dispatcher renders.
C29_SesionConPagina ==
    logged_in => token # None /\ current_page \in Paginas

\* logged in for the second time, after a form was saved in the first, and
\* moved from the dashboard to the reports
C29_Witness ==
    /\ logged_in
    /\ request.op = "login"
    /\ formularios # <<>>
    /\ current_page = "reportes"
    /\ previous_page = "dashboard"

\* C30: the step that logs out sets token to None and current_page to
\* "inicio" and leaves user_info, empresa_actual and previous_page as they
\* were; the step that logs in leaves empresa_actual as it was.
C30_LogoutConservaEmpresa ==
    [][/\ (logged_in /\ ~logged_in') =>
             /\ token' = None
             /\ current_page' = "inicio"
             /\ user_info' = user_info
             /\ empresa_actual' = empresa_actual
             /\ previous_page' = previous_page
       /\ (~logged_in /\ logged_in') => empresa_actual' = empresa_actual]_vars

\* the company loaded before a logout is the selected company right after
\* the next login
C30_Witness ==
    /\ logged_in
    /\ request.op = "login"
    /\ response.status = 200
    /\ empresa_actual = EmpresaR1
    /\ current_page = "dashboard"

====
